---- MODULE Spec2Model ----
(***************************************************************************)
(* Callback bridging subsystem of miniqt (kyute/miniqt-sys):               *)
(*   - MQCallback, MQCallback_int, MQCallback_QString: trampolines that    *)
(*     forward a Qt signal to a function pointer plus two data words;      *)
(*   - MQPaintEventFilter: an event filter that forwards paint events to   *)
(*     a predicate and returns its answer.                                 *)
(* The shim's calls into Qt (QObject::connect, installEventFilter,         *)
(* removeEventFilter, ~QObject, event delivery) are modelled by what Qt    *)
(* does for them: connections are kept in connection order, the filter     *)
(* list of an object holds each filter once with the last installed first, *)
(* a destroyed QObject is disconnected and its filter-list entries become  *)
(* null.                                                                   *)
(***************************************************************************)
EXTENDS Integers, Sequences, FiniteSets, TLC

\* ------------------------------------------------------------- bounds ----
MaxTramp == 2       \* trampoline handles
MaxConns == 2       \* connections kept by Qt
MaxFilt  == 2       \* paint filter handles
MaxPosts == 2       \* events and signal emissions queued in one run
MaxDepth == 2       \* processEvents calls in progress at once
U64Bits  == 4       \* bits the model gives a uint64_t
MaxItems == 3       \* items in the layout

\* ------------------------------------------------------------ universe ---
Tramps  == 1..MaxTramp
Filters == 1..MaxFilt

\* The (data0, data1) pairs a caller passes: two words, in both orders.
DataPairs == {<<7, 42>>, <<42, 7>>}
NullFn == "null"                         \* a null function pointer
EntryPoints == {NullFn, "recordCall", "recordOther"}    \* MQCallback*_ptr values
Predicates  == {NullFn, "onPaint"}       \* MQPaintEventCallback values

Widgets      == {"combo"}                \* QWidget instances (a QComboBox)
PlainObjects == {"action"}               \* QObjects that are not widgets (a QAction)
Objects      == Widgets \cup PlainObjects
App          == "app"                    \* QCoreApplication::instance()
ChainOwners  == Objects \cup {App}

Kinds == {"void", "int", "QString"}
\* Signal names, one of each argument shape a trampoline can take.
Signals == {"triggered", "activated", "currentTextChanged"}
SignalShape(s) ==
    CASE s = "triggered"          -> "void"
      [] s = "activated"          -> "int"
      [] s = "currentTextChanged" -> "QString"

NoArg == [shape |-> "void", i |-> 0, s |-> ""]
IntArg(n) == [shape |-> "int", i |-> n, s |-> ""]
StrArg(x) == [shape |-> "QString", i |-> 0, s |-> x]
SignalArgs(s) ==
    CASE SignalShape(s) = "void"    -> {NoArg}
      [] SignalShape(s) = "int"     -> {IntArg(99), IntArg(5)}
      [] SignalShape(s) = "QString" -> {StrArg("abc")}

EventTypes == {"Paint", "MouseMove"}     \* QEvent::Type values

\* Qt::ConnectionType values: the default, and the default with the
\* Qt::UniqueConnection flag.
ConnectionTypes == {"AutoConnection", "UniqueConnection"}

\* The declared (Q_PROPERTY) property of the object, a bool, and the names
\* that are not declared, which Qt keeps as dynamic properties.
DeclaredNames == {"enabled"}
DynamicNames == {"id", "tag"}
PropNames == DeclaredNames \cup DynamicNames

\* The values of a uint64_t, and the ones callers pass.
U64Max == 2^U64Bits - 1
U64Values == {0, 1, 7, U64Max}

\* QVariant values: invalid, bool, unsigned long long, string.
Invalid == [t |-> "Invalid"]
Bool(b) == [t |-> "Bool", b |-> b]
ULongLong(v) == [t |-> "ULongLong", v |-> v]
String(s) == [t |-> "String", s |-> s]

\* QString::number(n): the decimal digits of n.
DigitChars == <<"0", "1", "2", "3", "4", "5", "6", "7", "8", "9">>
RECURSIVE ToDigits(_)
ToDigits(n) ==
    IF n < 10 THEN <<DigitChars[n + 1]>>
    ELSE ToDigits(n \div 10) \o <<DigitChars[(n % 10) + 1]>>

\* The strings a property may hold: numbers that fit a uint64_t, one that
\* does not, and text.
Strings == {ToDigits(7), ToDigits(U64Max), ToDigits(U64Max + 1), <<"a", "b", "c">>}

Variants == {Invalid} \cup {Bool(b) : b \in BOOLEAN}
            \cup {ULongLong(v) : v \in U64Values} \cup {String(s) : s \in Strings}

InitialProps == [n \in PropNames |-> IF n \in DeclaredNames THEN Bool(TRUE) ELSE Invalid]

\* --------------------------------------------------------------- state ---
VARIABLES
    tramp,      \* tramp[t]: the MQCallback* object at handle t
    conns,      \* Qt's connection list, in connection order
    filt,       \* filt[f]: the MQPaintEventFilter at handle f
    chain,      \* chain[o]: the event filters installed on o, first consulted first
    made,       \* made[t]: what trampoline t was created with, and the source it was connected to last
    target,     \* the filter the last filter operation named, the filter list if it named one,
                \* and whether that list (for a destructor: any list) held the filter before
    op,         \* the last operation
    emitted,    \* the signal emission of the last operation, if it was one
    event,      \* the event delivered by the last operation, if it was one
    log,        \* the foreign calls (entryPoint, predicate) made by the last operation
    rets,       \* the eventFilter calls of the last operation with their results
    delivered,  \* whether the receiver's own event handler ran for the last event
    crashed,    \* a null function pointer was called
    gone,       \* the signal sources and event receivers that have been deleted
    stack,      \* the calls in progress on the GUI thread, innermost last
    pending,    \* the events and signal emissions waiting for processEvents
    trace,      \* the slot, eventFilter and foreign calls begun and ended so far
    args,       \* the arguments of the last operation, for the operations whose claims name them
    props,      \* props[name]: the QVariant the property `name` of the one QObject holds
    outValue,   \* the caller's uint64_t that QObject_property_uint64 writes through its reference
    returned,   \* what the last property or layout operation returned
    layout      \* the items of the one QLayout, in index order

vars == <<tramp, conns, filt, chain, made, target, op, emitted, event, log, rets, delivered, crashed,
          gone, stack, pending, trace, args, props, outValue, returned, layout>>

FreeTramp == [st |-> "free", kind |-> "void", data0 |-> 0, data1 |-> 0, callback |-> NullFn]
DeadTramp == [st |-> "destroyed", kind |-> "void", data0 |-> 0, data1 |-> 0, callback |-> NullFn]
NoFilter  == [st |-> "none", data0 |-> 0, data1 |-> 0, callback |-> NullFn]

NotMade  == [data0 |-> 0, data1 |-> 0, callback |-> NullFn, src |-> ""]
NoTarget == [owner |-> "", h |-> 0, was |-> FALSE]

NoArgs   == [none |-> TRUE]
NoReturn == [t |-> "void"]

NoSignal == [sender |-> "", signal |-> "", arg |-> NoArg]
NoEvent  == [receiver |-> "", type |-> ""]

Live(t)     == tramp[t].st = "live"
FiltLive(f) == filt[f].st = "live"

\* ------------------------------------------------------------- helpers ---
RECURSIVE SeqWithout(_, _)
SeqWithout(s, x) ==
    IF s = <<>> THEN <<>>
    ELSE IF Head(s) = x THEN SeqWithout(Tail(s), x)
    ELSE <<Head(s)>> \o SeqWithout(Tail(s), x)

InSeq(s, x) == \E i \in 1..Len(s) : s[i] = x

Init ==
    /\ tramp = [t \in Tramps |-> FreeTramp]
    /\ conns = <<>>
    /\ filt = [f \in Filters |-> NoFilter]
    /\ chain = [o \in ChainOwners |-> <<>>]
    /\ made = [t \in Tramps |-> NotMade]
    /\ target = NoTarget
    /\ op = "init"
    /\ emitted = NoSignal
    /\ event = NoEvent
    /\ log = <<>>
    /\ rets = <<>>
    /\ delivered = FALSE
    /\ crashed = FALSE
    /\ gone = {}
    /\ stack = <<>>
    /\ pending = <<>>
    /\ trace = <<>>
    /\ args = NoArgs
    /\ props = InitialProps
    /\ outValue = 0
    /\ returned = NoReturn
    /\ layout = <<>>

\* The property store and the layout are left alone.
SameStore == UNCHANGED <<props, outValue, returned, layout>>

\* What an operation on trampolines, filters or events leaves of the rest.
Rest ==
    /\ args' = NoArgs
    /\ SameStore

\* What every operation that is not a dispatch leaves behind, but for the
\* record of its arguments.
Silent(name) ==
    /\ op' = name
    /\ emitted' = NoSignal
    /\ event' = NoEvent
    /\ log' = <<>>
    /\ rets' = <<>>
    /\ delivered' = FALSE
    /\ UNCHANGED <<crashed, gone, stack, pending, trace>>

Quiet(name) ==
    /\ Silent(name)
    /\ Rest


\* ======================================================== trampolines ====
\* A foreign call made through a function pointer.
Call(h, fn, d0, d1, arg) ==
    [via |-> "trigger", h |-> h, fn |-> fn, d0 |-> d0, d1 |-> d1, arg |-> arg]

\* A constructor that leaves the callback member unset.
MQCallback_unset(kind, data0, data1, callback) ==
    [st |-> "live", kind |-> kind, data0 |-> data0, data1 |-> data1, callback |-> NullFn]

\* The constructors: data0{data0}, data1{data1}, callback{callback}.
MQCallback(kind, data0, data1, callback) ==
    [st |-> "live", kind |-> kind, data0 |-> data0, data1 |-> data1, callback |-> callback]

\* A trigger that reads the words and the pointer of the trampoline at
\* handle 1, as if the three fields were shared by all trampolines.
MQCallback_trigger_shared(t) ==
    Call(t, tramp[1].callback, tramp[1].data0, tramp[1].data1, NoArg)

\* void MQCallback::trigger() { callback(data0, data1); }
MQCallback_trigger(t) ==
    Call(t, tramp[t].callback, tramp[t].data0, tramp[t].data1, NoArg)

\* A trigger that passes the two data words in the wrong order.
MQCallback_int_trigger_swapped(t, i) ==
    Call(t, tramp[t].callback, tramp[t].data1, tramp[t].data0, IntArg(i))

\* void MQCallback_int::trigger(int i) { callback(data0, data1, i); }
MQCallback_int_trigger(t, i) ==
    Call(t, tramp[t].callback, tramp[t].data0, tramp[t].data1, IntArg(i))

\* void MQCallback_QString::trigger(const QString &str) { callback(data0, data1, str); }
MQCallback_QString_trigger(t, str) ==
    Call(t, tramp[t].callback, tramp[t].data0, tramp[t].data1, StrArg(str))

\* Qt invoking the trigger slot of receiver t with the signal's argument.
InvokeSlot(t, arg) ==
    CASE tramp[t].kind = "void"    -> MQCallback_trigger(t)
      [] tramp[t].kind = "int"     -> MQCallback_int_trigger(t, arg.i)
      [] tramp[t].kind = "QString" -> MQCallback_QString_trigger(t, arg.s)

\* QObject::connect by signature strings: trigger() takes any signal,
\* trigger(int) and trigger(const QString&) a signal that carries that type.
Compatible(signal, kind) == kind = "void" \/ kind = SignalShape(signal)

Conn(sender, signal, receiver) == [sender |-> sender, signal |-> signal, receiver |-> receiver]

\* The slot calls one emission makes: every connection of that signal of
\* that sender, in connection order.
RECURSIVE Activate(_, _, _, _)
Activate(cs, sender, signal, arg) ==
    IF cs = <<>> THEN <<>>
    ELSE IF Head(cs).sender = sender /\ Head(cs).signal = signal
         THEN <<InvokeSlot(Head(cs).receiver, arg)>> \o Activate(Tail(cs), sender, signal, arg)
         ELSE Activate(Tail(cs), sender, signal, arg)

\* Calling through a null function pointer ends the process: the calls
\* before it were made, none after it is.
RECURSIVE UntilNull(_)
UntilNull(calls) ==
    IF calls = <<>> \/ Head(calls).fn = NullFn THEN <<>>
    ELSE <<Head(calls)>> \o UntilNull(Tail(calls))

HitsNull(calls) == \E k \in 1..Len(calls) : calls[k].fn = NullFn

\* A create that also connects the new trampoline, as the widget binders do.
NewCallback_connecting(kind, data0, data1, callback) ==
    /\ ~crashed
    /\ \E t \in Tramps :
         /\ tramp[t].st = "free"
         /\ tramp' = [tramp EXCEPT ![t] = MQCallback(kind, data0, data1, callback)]
         /\ made' = [made EXCEPT ![t] = [data0 |-> data0, data1 |-> data1,
                                         callback |-> callback, src |-> ""]]
         /\ conns' = IF Len(conns) < MaxConns
                     THEN Append(conns, Conn("combo", "triggered", t))
                     ELSE conns
    /\ target' = NoTarget
    /\ UNCHANGED <<filt, chain>>

\* A create that refuses a null function pointer.
NewCallback_validating(kind, data0, data1, callback) ==
    /\ ~crashed
    /\ callback # NullFn
    /\ \E t \in Tramps :
         /\ tramp[t].st = "free"
         /\ tramp' = [tramp EXCEPT ![t] = MQCallback(kind, data0, data1, callback)]
         /\ made' = [made EXCEPT ![t] = [data0 |-> data0, data1 |-> data1,
                                         callback |-> callback, src |-> ""]]
    /\ target' = NoTarget
    /\ UNCHANGED <<conns, filt, chain>>

NewCallback(kind, data0, data1, callback) ==
    /\ ~crashed
    /\ \E t \in Tramps :
         /\ tramp[t].st = "free"
         /\ tramp' = [tramp EXCEPT ![t] = MQCallback(kind, data0, data1, callback)]
         /\ made' = [made EXCEPT ![t] = [data0 |-> data0, data1 |-> data1,
                                         callback |-> callback, src |-> ""]]
    /\ target' = NoTarget
    /\ UNCHANGED <<conns, filt, chain>>

MQCallback_new ==
    \E d \in DataPairs, cb \in EntryPoints :
        NewCallback("void", d[1], d[2], cb) /\ Quiet("MQCallback_new")

MQCallback_int_new ==
    \E d \in DataPairs, cb \in EntryPoints :
        NewCallback("int", d[1], d[2], cb) /\ Quiet("MQCallback_int_new")

MQCallback_QString_new ==
    \E d \in DataPairs, cb \in EntryPoints :
        NewCallback("QString", d[1], d[2], cb) /\ Quiet("MQCallback_QString_new")

\* A connect that never adds a connection that is already there.
Connected_deduplicating(sender, signal, receiver, type) ==
    IF Compatible(signal, tramp[receiver].kind) /\ ~InSeq(conns, Conn(sender, signal, receiver))
    THEN Append(conns, Conn(sender, signal, receiver))
    ELSE conns

\* QObject::connect(sender, signal, receiver, method, type): one more
\* connection when the signatures are compatible, none otherwise; with
\* Qt::UniqueConnection in the type, none either when the same connection
\* exists already.
Connected(sender, signal, receiver, type) ==
    IF ~Compatible(signal, tramp[receiver].kind) THEN conns
    ELSE IF type = "UniqueConnection" /\ InSeq(conns, Conn(sender, signal, receiver)) THEN conns
    ELSE Append(conns, Conn(sender, signal, receiver))

\* void QObject_connect_abi(sender, signal, receiver, method, type); the
\* method is the trigger of the receiver's class.
QObject_connect_abi ==
    \E sender \in Objects, signal \in Signals, receiver \in Tramps, type \in ConnectionTypes :
        /\ ~crashed
        /\ sender \notin gone
        /\ Live(receiver)
        /\ Len(conns) < MaxConns
        /\ conns' = Connected(sender, signal, receiver, type)
        /\ made' = IF Compatible(signal, tramp[receiver].kind)
                   THEN [made EXCEPT ![receiver].src = sender]
                   ELSE made
        /\ Silent("QObject_connect_abi")
        /\ args' = [sender |-> sender, signal |-> signal, receiver |-> receiver, type |-> type]
        /\ SameStore
        /\ target' = NoTarget
        /\ UNCHANGED <<tramp, filt, chain>>

\* A destructor that leaves the object's connections in place.
Disconnected_none(cs, t) == cs

\* ~QObject: every connection to or from the object is removed.
RECURSIVE Disconnected(_, _)
Disconnected(cs, t) ==
    IF cs = <<>> THEN <<>>
    ELSE IF Head(cs).receiver = t THEN Disconnected(Tail(cs), t)
    ELSE <<Head(cs)>> \o Disconnected(Tail(cs), t)

\* A delete that takes the connections away and leaves the object.
QObject_delete_leaking ==
    \E t \in Tramps :
        /\ ~crashed
        /\ Live(t)
        /\ conns' = Disconnected(conns, t)
        /\ Quiet("QObject_delete")
        /\ target' = NoTarget
        /\ UNCHANGED <<tramp, made, filt, chain>>

\* void QObject_delete(QObject *object) { delete object; }
QObject_delete ==
    \E t \in Tramps :
        /\ ~crashed
        /\ Live(t)
        /\ tramp' = [tramp EXCEPT ![t] = FreeTramp]
        /\ conns' = Disconnected(conns, t)
        /\ made' = [made EXCEPT ![t] = NotMade]
        /\ Quiet("QObject_delete")
        /\ target' = NoTarget
        /\ UNCHANGED <<filt, chain>>

\* void QObject_destructor(QObject *object) { object->~QObject(); }
\* The object is gone, its storage is not released.
QObject_destructor ==
    \E t \in Tramps :
        /\ ~crashed
        /\ Live(t)
        /\ tramp' = [tramp EXCEPT ![t] = DeadTramp]
        /\ conns' = Disconnected(conns, t)
        /\ made' = [made EXCEPT ![t] = [NotMade EXCEPT !.src = made[t].src]]
        /\ Quiet("QObject_destructor")
        /\ target' = NoTarget
        /\ UNCHANGED <<filt, chain>>

\* A widget emits one of its signals (Qt's dispatch, on the user's input).
EmitSignal ==
    \E sender \in Objects, signal \in Signals :
      \E arg \in SignalArgs(signal) :
        /\ ~crashed
        /\ sender \notin gone
        /\ op' = "emit"
        /\ emitted' = [sender |-> sender, signal |-> signal, arg |-> arg]
        /\ event' = NoEvent
        /\ log' = UntilNull(Activate(conns, sender, signal, arg))
        /\ crashed' = HitsNull(Activate(conns, sender, signal, arg))
        /\ rets' = <<>>
        /\ delivered' = FALSE
        /\ target' = NoTarget
        /\ Rest
        /\ UNCHANGED <<tramp, conns, filt, chain, made, gone, stack, pending, trace>>

\* ----------------------------------------------------- widget binders ---
\* The trampoline classes the binders instantiate, miniqt::Callback_int and
\* miniqt::Callback_QString: a trampoline of the int and of the QString
\* kind, with the same three constructor arguments and the same trigger.
Callback_int(data0, data1, callback) == MQCallback("int", data0, data1, callback)
Callback_QString(data0, data1, callback) == MQCallback("QString", data0, data1, callback)

\* A binder that forgets to connect the trampoline it has made.
Bound_unconnected(this_, signal, cb) == conns

\* this_->connect(this_, &Class::signal, cb, &Callback::trigger): the
\* default connection type.
Bound(this_, signal, cb) == Append(conns, Conn(this_, signal, cb))

\* auto cb = new Callback(data0, data1, callback);
\* this_->connect(this_, signal, cb, trigger); return cb;
Binder(name, this_, signal, object) ==
    /\ ~crashed
    /\ this_ \notin gone
    /\ Len(conns) < MaxConns
    /\ \E cb \in Tramps :
         /\ tramp[cb].st = "free"
         /\ tramp' = [tramp EXCEPT ![cb] = object]
         /\ made' = [made EXCEPT ![cb] = [data0 |-> object.data0, data1 |-> object.data1,
                                          callback |-> object.callback, src |-> this_]]
         /\ conns' = Bound(this_, signal, cb)
         /\ args' = [this_ |-> this_, data0 |-> object.data0, data1 |-> object.data1,
                     callback |-> object.callback, cb |-> cb]
    /\ Silent(name)
    /\ SameStore
    /\ target' = NoTarget
    /\ UNCHANGED <<filt, chain>>

\* MQCallback *QComboBox_activated_int(this_, data0, data1, callback)
QComboBox_activated_int ==
    \E this_ \in Widgets, d \in DataPairs, callback \in EntryPoints :
        Binder("QComboBox_activated_int", this_, "activated", Callback_int(d[1], d[2], callback))

\* MQT_DEFINE_SIGNAL(QComboBox, currentTextChanged, QString)
QComboBox_currentTextChanged ==
    \E this_ \in Widgets, d \in DataPairs, callback \in EntryPoints :
        Binder("QComboBox_currentTextChanged", this_, "currentTextChanged",
               Callback_QString(d[1], d[2], callback))

\* The binders, the signals and the destruction of a trampoline.
NextBinder ==
    \/ QComboBox_activated_int
    \/ QComboBox_currentTextChanged
    \/ QObject_delete
    \/ EmitSignal

SpecBinder == Init /\ [][NextBinder]_vars

NextCallback ==
    \/ MQCallback_new
    \/ MQCallback_int_new
    \/ MQCallback_QString_new
    \/ QObject_connect_abi
    \/ QObject_delete
    \/ QObject_destructor
    \/ EmitSignal

SpecCallback == Init /\ [][NextCallback]_vars


\* ======================================================= paint filter ====
\* MQPaintEventFilter::MQPaintEventFilter: data0_{data0}, data1_{data1}, callback_{callback}.
MQPaintEventFilter(data0, data1, callback) ==
    [st |-> "live", data0 |-> data0, data1 |-> data1, callback |-> callback]

\* The predicate call callback_(data0_, data1_, static_cast<QWidget *>(receiver), *paintEvent).
\* result is what the predicate returned.
PredCall(f, receiver, ev, result) ==
    [via |-> "eventFilter", h |-> f, fn |-> filt[f].callback,
     d0 |-> filt[f].data0, d1 |-> filt[f].data1,
     arg |-> [widget |-> receiver, event |-> ev], result |-> result]

\* A filter that calls the predicate and forgets its answer.
eventFilter_dropsTrue(f, receiver, ev, answer) ==
    IF ev.type = "Paint"
    THEN IF filt[f].callback = NullFn
         THEN [calls |-> <<>>, ret |-> FALSE, crash |-> TRUE]
         ELSE [calls |-> <<PredCall(f, receiver, ev, answer)>>, ret |-> FALSE, crash |-> FALSE]
    ELSE [calls |-> <<>>, ret |-> FALSE, crash |-> FALSE]

\* A filter that returns the opposite of the predicate's answer.
eventFilter_negated(f, receiver, ev, answer) ==
    IF ev.type = "Paint"
    THEN IF filt[f].callback = NullFn
         THEN [calls |-> <<>>, ret |-> FALSE, crash |-> TRUE]
         ELSE [calls |-> <<PredCall(f, receiver, ev, answer)>>, ret |-> ~answer, crash |-> FALSE]
    ELSE [calls |-> <<>>, ret |-> FALSE, crash |-> FALSE]

\* A filter that does not look at the event's type.
eventFilter_anyType(f, receiver, ev, answer) ==
    IF filt[f].callback = NullFn
    THEN [calls |-> <<>>, ret |-> FALSE, crash |-> TRUE]
    ELSE [calls |-> <<PredCall(f, receiver, ev, TRUE)>>, ret |-> TRUE, crash |-> FALSE]

\* A filter that calls the predicate once to test and once more to return.
eventFilter_twice(f, receiver, ev, answer) ==
    IF ev.type = "Paint"
    THEN IF filt[f].callback = NullFn
         THEN [calls |-> <<>>, ret |-> FALSE, crash |-> TRUE]
         ELSE [calls |-> <<PredCall(f, receiver, ev, answer), PredCall(f, receiver, ev, answer)>>,
               ret |-> answer, crash |-> FALSE]
    ELSE [calls |-> <<>>, ret |-> FALSE, crash |-> FALSE]

\* A filter that remembers: once it has returned true for an event it
\* returns true for the next one as well.
eventFilter_sticky(f, receiver, ev, answer) ==
    IF ev.type = "Paint"
    THEN IF filt[f].callback = NullFn
         THEN [calls |-> <<>>, ret |-> FALSE, crash |-> TRUE]
         ELSE [calls |-> <<PredCall(f, receiver, ev, answer)>>,
               ret |-> answer \/ (\E k \in 1..Len(rets) : rets[k].h = f /\ rets[k].ret),
               crash |-> FALSE]
    ELSE [calls |-> <<>>, ret |-> FALSE, crash |-> FALSE]

\* bool MQPaintEventFilter::eventFilter(QObject *receiver, QEvent *event);
\* answer is what the predicate returns when it is called.
eventFilter(f, receiver, ev, answer) ==
    IF ev.type = "Paint"
    THEN IF filt[f].callback = NullFn
         THEN [calls |-> <<>>, ret |-> FALSE, crash |-> TRUE]
         ELSE IF answer
              THEN [calls |-> <<PredCall(f, receiver, ev, answer)>>, ret |-> TRUE, crash |-> FALSE]
              ELSE [calls |-> <<PredCall(f, receiver, ev, answer)>>, ret |-> FALSE, crash |-> FALSE]
    ELSE [calls |-> <<>>, ret |-> FALSE, crash |-> FALSE]

FilterRet(f, owner, ret) == [h |-> f, owner |-> owner, ret |-> ret]

\* Qt sending an event through one filter list: each filter in turn, and
\* the first one that returns true ends the delivery. The event has passed
\* n filters before; ans[k] is what the predicate of the k-th filter the
\* event passes returns if it is called.
RECURSIVE RunFilters(_, _, _, _, _, _)
RunFilters(fs, owner, receiver, ev, ans, n) ==
    IF fs = <<>> THEN [log |-> <<>>, rets |-> <<>>, out |-> "pass"]
    ELSE LET f == Head(fs)
             r == eventFilter(f, receiver, ev, ans[n + 1])
         IN  IF r.crash THEN [log |-> <<>>, rets |-> <<>>, out |-> "crash"]
             ELSE IF r.ret
             THEN [log |-> r.calls, rets |-> <<FilterRet(f, owner, TRUE)>>, out |-> "consumed"]
             ELSE LET rest == RunFilters(Tail(fs), owner, receiver, ev, ans, n + 1)
                  IN  [log  |-> r.calls \o rest.log,
                       rets |-> <<FilterRet(f, owner, FALSE)>> \o rest.rets,
                       out  |-> rest.out]

\* The filters an event passes, in the order they are consulted, each with
\* the chain that lists it.
RECURSIVE Listed(_, _)
Listed(fs, owner) ==
    IF fs = <<>> THEN <<>>
    ELSE <<[h |-> Head(fs), owner |-> owner]>> \o Listed(Tail(fs), owner)

PathOf(receiver) == Listed(chain[App], App) \o Listed(chain[receiver], receiver)

\* A delivery that consults the receiver's own filters only.
Notify_ownFiltersOnly(receiver, ev, ans) ==
    RunFilters(chain[receiver], receiver, receiver, ev, ans, Len(chain[App]))

\* QCoreApplication::notify: the application's filters, then the
\* receiver's own, then the receiver's event handler.
Notify(receiver, ev, ans) ==
    LET a == RunFilters(chain[App], App, receiver, ev, ans, 0)
    IN  IF a.out # "pass" THEN a
        ELSE LET b == RunFilters(chain[receiver], receiver, receiver, ev, ans, Len(chain[App]))
             IN  [log |-> a.log \o b.log, rets |-> a.rets \o b.rets, out |-> b.out]

\* void MQPaintEventFilter_constructor(self, data0, data1, callback): placement new.
MQPaintEventFilter_constructor ==
    \E self \in Filters, d \in DataPairs, cb \in Predicates :
        /\ ~crashed
        /\ filt[self].st = "none"
        /\ filt' = [filt EXCEPT ![self] = MQPaintEventFilter(d[1], d[2], cb)]
        /\ Quiet("MQPaintEventFilter_constructor")
        /\ target' = [owner |-> "", h |-> self, was |-> FALSE]
        /\ UNCHANGED <<tramp, conns, chain, made>>

\* An install that does not look for the filter in the list.
Installed_nodedup(fs, f) == <<f>> \o fs

\* A remove that leaves the list as it is.
Removed_noop(fs, f) == fs

\* QObject::installEventFilter: the filter is taken out of the list if it
\* is there and put in front.
Installed(fs, f) == <<f>> \o SeqWithout(fs, f)

\* QObject::removeEventFilter: the filter is taken out of the list.
Removed(fs, f) == SeqWithout(fs, f)

\* void QObject_installEventFilter(QObject *self, QObject *filterObj)
QObject_installEventFilter ==
    \E self \in Objects, filterObj \in Filters :
        /\ ~crashed
        /\ self \notin gone
        /\ FiltLive(filterObj)
        /\ chain' = [chain EXCEPT ![self] = Installed(chain[self], filterObj)]
        /\ target' = [owner |-> self, h |-> filterObj, was |-> InSeq(chain[self], filterObj)]
        /\ Quiet("QObject_installEventFilter")
        /\ UNCHANGED <<tramp, conns, filt, made>>

\* void QObject_removeEventFilter(QObject *self, QObject *filterObj)
QObject_removeEventFilter ==
    \E self \in Objects, filterObj \in Filters :
        /\ ~crashed
        /\ self \notin gone
        /\ FiltLive(filterObj)
        /\ chain' = [chain EXCEPT ![self] = Removed(chain[self], filterObj)]
        /\ target' = [owner |-> self, h |-> filterObj, was |-> InSeq(chain[self], filterObj)]
        /\ Quiet("QObject_removeEventFilter")
        /\ UNCHANGED <<tramp, conns, filt, made>>

\* void QCoreApplication_installEventFilter(QObject *filterObj)
QCoreApplication_installEventFilter ==
    \E filterObj \in Filters :
        /\ ~crashed
        /\ FiltLive(filterObj)
        /\ chain' = [chain EXCEPT ![App] = Installed(chain[App], filterObj)]
        /\ target' = [owner |-> App, h |-> filterObj, was |-> InSeq(chain[App], filterObj)]
        /\ Quiet("QCoreApplication_installEventFilter")
        /\ UNCHANGED <<tramp, conns, filt, made>>

\* void QCoreApplication_removeEventFilter(QObject *filterObj)
QCoreApplication_removeEventFilter ==
    \E filterObj \in Filters :
        /\ ~crashed
        /\ FiltLive(filterObj)
        /\ chain' = [chain EXCEPT ![App] = Removed(chain[App], filterObj)]
        /\ target' = [owner |-> App, h |-> filterObj, was |-> InSeq(chain[App], filterObj)]
        /\ Quiet("QCoreApplication_removeEventFilter")
        /\ UNCHANGED <<tramp, conns, filt, made>>

\* A destructor that leaves the filter lists as they are, the destroyed
\* filter still listed.
Unlisted_dangling(f) == chain

\* void MQPaintEventFilter_destructor(self) { self->~MQPaintEventFilter(); }
\* ~QObject runs; the filter lists hold guarded pointers, whose entries for
\* the destroyed object become null and are skipped from then on.
Unlisted(f) == [o \in ChainOwners |-> SeqWithout(chain[o], f)]

\* A filter destructor that also takes every signal connection away.
MQPaintEventFilter_destructor_disconnecting ==
    \E self \in Filters :
        /\ ~crashed
        /\ FiltLive(self)
        /\ filt' = [filt EXCEPT ![self] = NoFilter]
        /\ chain' = Unlisted(self)
        /\ conns' = <<>>
        /\ Quiet("MQPaintEventFilter_destructor")
        /\ target' = [owner |-> "", h |-> self,
                      was |-> \E o \in ChainOwners : InSeq(chain[o], self)]
        /\ UNCHANGED <<tramp, made>>

MQPaintEventFilter_destructor ==
    \E self \in Filters :
        /\ ~crashed
        /\ FiltLive(self)
        /\ filt' = [filt EXCEPT ![self] = NoFilter]
        /\ chain' = Unlisted(self)
        /\ Quiet("MQPaintEventFilter_destructor")
        /\ target' = [owner |-> "", h |-> self,
                      was |-> \E o \in ChainOwners : InSeq(chain[o], self)]
        /\ UNCHANGED <<tramp, conns, made>>

\* What the predicate calls of one delivery may return: one answer for each
\* filter the event can pass (a predicate is called for paint events only).
Answers(receiver, type) ==
    IF type = "Paint"
    THEN [1..(Len(chain[App]) + Len(chain[receiver])) -> BOOLEAN]
    ELSE {<<>>}

\* Qt delivers an event to an object.
SendEvent ==
    \E receiver \in Objects, type \in EventTypes :
      \E ans \in Answers(receiver, type) :
        LET ev == [receiver |-> receiver, type |-> type]
            r  == Notify(receiver, ev, ans)
        IN  /\ ~crashed
            /\ receiver \notin gone
            /\ op' = "event"
            /\ emitted' = NoSignal
            /\ event' = ev
            /\ log' = r.log
            /\ rets' = r.rets
            /\ delivered' = (r.out = "pass")
            /\ crashed' = (r.out = "crash")
            /\ target' = NoTarget
            /\ Rest
            /\ UNCHANGED <<tramp, conns, filt, chain, made, gone, stack, pending, trace>>


\* ===================================================== source teardown ====
\* A teardown that deletes the trampolines connected to the object, as if
\* they were its children.
TrampsAfterTeardown_owned(o) ==
    [t \in Tramps |->
        IF \E k \in 1..Len(conns) : conns[k].sender = o /\ conns[k].receiver = t
        THEN FreeTramp ELSE tramp[t]]

\* MQCallback*_new create the trampoline without a parent, and connect does
\* not give it one: ~QObject of the sender deletes none of them.
TrampsAfterTeardown(o) == tramp

\* A teardown that destroys the filters installed on the object.
FiltersAfterTeardown_owned(o) ==
    [f \in Filters |-> IF InSeq(chain[o], f) THEN NoFilter ELSE filt[f]]

\* The filter list of an object holds pointers to its filters, it does not
\* own them: ~QObject of the object destroys none of them.
FiltersAfterTeardown(o) == filt

\* ~QObject of a sender: the connections from it are removed.
RECURSIVE ConnsAfterTeardown(_, _)
ConnsAfterTeardown(cs, o) ==
    IF cs = <<>> THEN <<>>
    ELSE IF Head(cs).sender = o THEN ConnsAfterTeardown(Tail(cs), o)
    ELSE <<Head(cs)>> \o ConnsAfterTeardown(Tail(cs), o)

\* void QComboBox_delete(QComboBox *this_) { delete this_; }
QComboBox_delete ==
    \E this_ \in Widgets :
        /\ ~crashed
        /\ this_ \notin gone
        /\ gone' = gone \cup {this_}
        /\ tramp' = TrampsAfterTeardown(this_)
        /\ filt' = FiltersAfterTeardown(this_)
        /\ conns' = ConnsAfterTeardown(conns, this_)
        /\ chain' = [chain EXCEPT ![this_] = <<>>]
        /\ target' = [owner |-> this_,
                      h |-> IF chain[this_] = <<>> THEN 0 ELSE Head(chain[this_]),
                      was |-> chain[this_] # <<>>]
        /\ op' = "QComboBox_delete"
        /\ Rest
        /\ emitted' = NoSignal
        /\ event' = NoEvent
        /\ log' = <<>>
        /\ rets' = <<>>
        /\ delivered' = FALSE
        /\ UNCHANGED <<made, crashed, stack, pending, trace>>

NextFilter ==
    \/ MQPaintEventFilter_constructor
    \/ QObject_installEventFilter
    \/ QObject_removeEventFilter
    \/ QCoreApplication_installEventFilter
    \/ QCoreApplication_removeEventFilter
    \/ MQPaintEventFilter_destructor
    \/ SendEvent

SpecFilter == Init /\ [][NextFilter]_vars


\* ========================================================= both parts ====
\* The whole shim, with one trampoline handle, one connection and one
\* filter handle in use.
SmallScope ==
    /\ \A t \in Tramps : t > 1 => tramp[t].st = "free"
    /\ \A f \in Filters : f > 1 => filt[f].st = "none"
    /\ Len(conns) <= 1

Next ==
    \/ MQCallback_new /\ SmallScope'
    \/ MQCallback_int_new /\ SmallScope'
    \/ MQCallback_QString_new /\ SmallScope'
    \/ QObject_connect_abi /\ SmallScope'
    \/ QObject_delete
    \/ QObject_destructor
    \/ EmitSignal
    \/ MQPaintEventFilter_constructor /\ SmallScope'
    \/ QObject_installEventFilter
    \/ QObject_removeEventFilter
    \/ QCoreApplication_installEventFilter
    \/ QCoreApplication_removeEventFilter
    \/ MQPaintEventFilter_destructor
    \/ SendEvent
    \/ QComboBox_delete

Spec == Init /\ [][Next]_vars


\* ===================================================== step by step =====
\* The same dispatch, one call and one return at a time, on the one thread
\* that runs the event loop. The stack holds, innermost last:
\*   "loop"     a processEvents call,
\*   "dispatch" Qt delivering one event or one signal emission,
\*   "shim"     a trigger slot or an eventFilter of the shim that Qt called,
\*   "foreign"  the entryPoint or predicate the shim called.
\* Foreign code runs when nothing is in progress or when a foreign frame is
\* innermost; it may call the shim's operations there, processEvents and
\* QObject_delete included.
NoItem == [what |-> "", obj |-> "", name |-> "", arg |-> NoArg]
NoCall == Call(0, NullFn, 0, 0, NoArg)

Frame(k) ==
    [k |-> k, via |-> "", h |-> 0, item |-> NoItem, subs |-> <<>>, todo |-> <<>>,
     done |-> <<>>, pc |-> "", call |-> NoCall, retT |-> FALSE, retF |-> FALSE, ret |-> FALSE]

Ev(e, via, h, call, ret) ==
    [e |-> e, via |-> via, h |-> h, call |-> call, ret |-> ret, depth |-> Len(stack)]

Top == stack[Len(stack)]
Pop == SubSeq(stack, 1, Len(stack) - 1)
WithTop(fr) == [stack EXCEPT ![Len(stack)] = fr]

\* A thread-blind variant: any code may call in at any time.
ForeignTurn_anytime == TRUE

\* Foreign code has control: at top level, or inside an entryPoint or a
\* predicate that has not returned yet.
ForeignTurn == IF stack = <<>> THEN TRUE ELSE Top.k = "foreign"

Taken == Cardinality({k \in 1..Len(trace) : trace[k].e = "take"})
Loops == Cardinality({k \in 1..Len(stack) : stack[k].k = "loop"})

\* What every step of a dispatch leaves behind in the per-operation record.
Step(name) ==
    /\ op' = name
    /\ emitted' = NoSignal
    /\ event' = NoEvent
    /\ log' = <<>>
    /\ rets' = <<>>
    /\ delivered' = FALSE
    /\ target' = NoTarget
    /\ Rest
    /\ UNCHANGED gone

\* Qt queues a signal emission or an event for an object (user input).
PostSignal ==
    \E sender \in Objects, signal \in Signals :
      \E arg \in SignalArgs(signal) :
        /\ ~crashed
        /\ stack = <<>>
        /\ sender \notin gone
        /\ Len(pending) + Taken < MaxPosts
        /\ pending' = Append(pending, [what |-> "signal", obj |-> sender, name |-> signal, arg |-> arg])
        /\ Step("PostSignal")
        /\ UNCHANGED <<tramp, conns, filt, chain, made, crashed, stack, trace>>

PostEvent ==
    \E receiver \in Objects, type \in EventTypes :
        /\ ~crashed
        /\ stack = <<>>
        /\ receiver \notin gone
        /\ Len(pending) + Taken < MaxPosts
        /\ pending' = Append(pending, [what |-> "event", obj |-> receiver, name |-> type, arg |-> NoArg])
        /\ Step("PostEvent")
        /\ UNCHANGED <<tramp, conns, filt, chain, made, crashed, stack, trace>>

\* QCoreApplication::processEvents(flags) and eventLoop->processEvents(flags):
\* the caller's thread delivers what is pending and returns.
ProcessEvents(name) ==
    /\ ~crashed
    /\ ForeignTurn
    /\ pending # <<>>
    /\ Loops < MaxDepth
    /\ stack' = Append(stack, Frame("loop"))
    /\ Step(name)
    /\ UNCHANGED <<tramp, conns, filt, chain, made, crashed, pending, trace>>

\* void QCoreApplication_processEvents(QEventLoop::ProcessEventsFlags flags)
QCoreApplication_processEvents == ProcessEvents("QCoreApplication_processEvents")

\* void QEventLoop_processEvents(QEventLoop* eventLoop, QEventLoop::ProcessEventsFlags flags)
QEventLoop_processEvents == ProcessEvents("QEventLoop_processEvents")

\* The receivers connected to a signal of a sender, in connection order.
RECURSIVE Subscribers(_, _, _)
Subscribers(cs, sender, signal) ==
    IF cs = <<>> THEN <<>>
    ELSE IF Head(cs).sender = sender /\ Head(cs).signal = signal
         THEN <<[h |-> Head(cs).receiver, owner |-> sender]>> \o Subscribers(Tail(cs), sender, signal)
         ELSE Subscribers(Tail(cs), sender, signal)

Recipients(item) ==
    IF item.what = "signal" THEN Subscribers(conns, item.obj, item.name)
    ELSE PathOf(item.obj)

\* processEvents takes the next pending item and starts delivering it.
TakeNext ==
    /\ ~crashed
    /\ stack # <<>>
    /\ Top.k = "loop"
    /\ pending # <<>>
    /\ LET item == Head(pending)
           to   == Recipients(item)
       IN  /\ stack' = Append(stack, [Frame("dispatch") EXCEPT !.item = item, !.subs = to, !.todo = to])
           /\ trace' = Append(trace, Ev("take", item.what, 0, NoCall, FALSE))
    /\ pending' = Tail(pending)
    /\ Step("TakeNext")
    /\ UNCHANGED <<tramp, conns, filt, chain, made, crashed>>

\* processEvents returns when nothing is pending.
LoopReturn ==
    /\ ~crashed
    /\ stack # <<>>
    /\ Top.k = "loop"
    /\ pending = <<>>
    /\ stack' = Pop
    /\ Step("LoopReturn")
    /\ UNCHANGED <<tramp, conns, filt, chain, made, crashed, pending, trace>>

\* Whether Qt still calls the recipient x of an item: a receiver deleted
\* since the delivery started has lost its connections and is passed over,
\* and so is a destroyed filter.
StillThere(item, x) ==
    IF item.what = "signal"
    THEN Live(x.h) /\ \E k \in 1..Len(conns) : conns[k] = Conn(item.obj, item.name, x.h)
    ELSE FiltLive(x.h)

\* Qt goes on with the innermost delivery: it calls the slot or the
\* eventFilter of the next recipient, or finishes.
Deliver ==
    /\ ~crashed
    /\ stack # <<>>
    /\ Top.k = "dispatch"
    /\ LET fr == Top
       IN  IF fr.todo = <<>>
           THEN /\ stack' = Pop
                /\ UNCHANGED trace
           ELSE LET x    == Head(fr.todo)
                    via  == IF fr.item.what = "signal" THEN "trigger" ELSE "eventFilter"
                    next == [fr EXCEPT !.todo = Tail(fr.todo),
                                       !.done = Append(fr.done, [h |-> x.h, called |-> StillThere(fr.item, x)])]
                IN  IF StillThere(fr.item, x)
                    THEN /\ stack' = Append(WithTop(next),
                                            [Frame("shim") EXCEPT !.via = via, !.h = x.h,
                                                                  !.item = fr.item, !.pc = "entry"])
                         /\ trace' = Append(trace, Ev("fire", via, x.h, NoCall, FALSE))
                    ELSE /\ stack' = WithTop(next)
                         /\ UNCHANGED trace
    /\ Step("Deliver")
    /\ UNCHANGED <<tramp, conns, filt, chain, made, crashed, pending>>

\* A trigger that is good for one firing: it clears its entryPoint.
TrampAfterTrigger_oneShot(t) == [tramp EXCEPT ![t].callback = NullFn]

\* trigger() reads data0, data1 and callback and writes nothing.
TrampAfterTrigger(t) == tramp

\* A trigger that puts the forward on the event queue and returns.
Trigger_deferred ==
    /\ ~crashed
    /\ stack # <<>>
    /\ Top.k = "shim"
    /\ Top.via = "trigger"
    /\ Top.pc = "entry"
    /\ stack' = WithTop([Top EXCEPT !.pc = "called"])
    /\ pending' = Append(pending, Top.item)
    /\ UNCHANGED <<tramp, trace, crashed>>
    /\ Step("Trigger")
    /\ UNCHANGED <<conns, filt, chain, made>>

\* The body of MQCallback::trigger, MQCallback_int::trigger or
\* MQCallback_QString::trigger: callback(data0, data1[, arg]).
Trigger ==
    /\ ~crashed
    /\ stack # <<>>
    /\ Top.k = "shim"
    /\ Top.via = "trigger"
    /\ Top.pc = "entry"
    /\ LET call == InvokeSlot(Top.h, Top.item.arg)
       IN  IF call.fn = NullFn
           THEN /\ crashed' = TRUE
                /\ UNCHANGED <<stack, trace, tramp>>
           ELSE /\ stack' = Append(WithTop([Top EXCEPT !.pc = "calling", !.call = call]),
                                   [Frame("foreign") EXCEPT !.via = "trigger", !.h = Top.h,
                                                            !.item = Top.item, !.call = call])
                /\ trace' = Append(trace, Ev("call", "trigger", Top.h, call, FALSE))
                /\ tramp' = TrampAfterTrigger(Top.h)
                /\ UNCHANGED crashed
    /\ Step("Trigger")
    /\ UNCHANGED <<conns, filt, chain, made, pending>>

\* The body of MQPaintEventFilter::eventFilter up to the predicate call:
\* for a paint event it calls the predicate, for any other it is done and
\* the result is false.
EventFilterBody ==
    /\ ~crashed
    /\ stack # <<>>
    /\ Top.k = "shim"
    /\ Top.via = "eventFilter"
    /\ Top.pc = "entry"
    /\ LET ev == [receiver |-> Top.item.obj, type |-> Top.item.name]
           rT == eventFilter(Top.h, Top.item.obj, ev, TRUE)
           rF == eventFilter(Top.h, Top.item.obj, ev, FALSE)
       IN  IF rT.crash
           THEN /\ crashed' = TRUE
                /\ UNCHANGED <<stack, trace>>
           ELSE IF rT.calls = <<>>
           THEN /\ stack' = WithTop([Top EXCEPT !.pc = "called", !.ret = rT.ret])
                /\ UNCHANGED <<trace, crashed>>
           ELSE LET call == [Head(rT.calls) EXCEPT !.result = FALSE]
                IN  /\ stack' = Append(WithTop([Top EXCEPT !.pc = "calling", !.call = call,
                                                           !.retT = rT.ret, !.retF = rF.ret]),
                                       [Frame("foreign") EXCEPT !.via = "eventFilter", !.h = Top.h,
                                                                !.item = Top.item, !.call = call])
                    /\ trace' = Append(trace, Ev("call", "eventFilter", Top.h, call, FALSE))
                    /\ UNCHANGED crashed
    /\ Step("EventFilterBody")
    /\ UNCHANGED <<tramp, conns, filt, chain, made, pending>>

\* The entryPoint or the predicate returns to the shim, a predicate with
\* its answer.
ForeignReturn ==
    /\ ~crashed
    /\ stack # <<>>
    /\ Top.k = "foreign"
    /\ \E answer \in (IF Top.via = "eventFilter" THEN BOOLEAN ELSE {FALSE}) :
         LET under == stack[Len(stack) - 1]
             ret   == IF answer THEN under.retT ELSE under.retF
         IN  /\ stack' = [Pop EXCEPT ![Len(stack) - 1] = [under EXCEPT !.pc = "called", !.ret = ret]]
             /\ trace' = Append(trace, Ev("back", Top.via, Top.h, Top.call, answer))
    /\ Step("ForeignReturn")
    /\ UNCHANGED <<tramp, conns, filt, chain, made, crashed, pending>>

\* A delivery in which the return of any slot ends the emission, as the
\* return of true from an eventFilter ends the delivery of an event.
AfterReturn_suppressing(fr, via, ret) ==
    [fr EXCEPT !.todo = <<>>, !.pc = "consumed"]

\* What the return of a slot or an eventFilter does to the delivery that
\* called it: an eventFilter that returns true ends it, a slot's return
\* (trigger returns void) does nothing to it.
AfterReturn(fr, via, ret) ==
    IF via = "eventFilter" /\ ret
    THEN [fr EXCEPT !.todo = <<>>, !.pc = "consumed"]
    ELSE fr

\* trigger or eventFilter returns to Qt.
WrapperReturn ==
    /\ ~crashed
    /\ stack # <<>>
    /\ Top.k = "shim"
    /\ Top.pc = "called"
    /\ LET under == stack[Len(stack) - 1]
       IN  stack' = [Pop EXCEPT ![Len(stack) - 1] = AfterReturn(under, Top.via, Top.ret)]
    /\ trace' = Append(trace, Ev("done", Top.via, Top.h, Top.call, Top.ret))
    /\ Step("WrapperReturn")
    /\ UNCHANGED <<tramp, conns, filt, chain, made, crashed, pending>>

\* The scope of the step-by-step runs: two trampolines (void or int) with
\* their own words and entryPoints, connected to one signal of one widget,
\* one paint filter on that widget.
DispatchScope ==
    /\ gone = {}
    /\ \A t \in Tramps : Live(t) =>
         /\ tramp[t].kind \in {"void", "int"}
         /\ <<tramp[t].data0, tramp[t].data1>> = (IF t = 1 THEN <<7, 42>> ELSE <<42, 7>>)
         /\ tramp[t].callback = (IF t = 1 THEN "recordCall" ELSE "recordOther")
    /\ \A k \in 1..Len(conns) : conns[k].sender = "combo" /\ conns[k].signal = "activated"
    /\ \A f \in Filters : FiltLive(f) =>
         /\ f = 1
         /\ <<filt[f].data0, filt[f].data1>> = <<7, 42>>
         /\ filt[f].callback = "onPaint"
    /\ chain[App] = <<>>
    /\ chain["action"] = <<>>
    /\ \A k \in 1..Len(pending) :
         /\ pending[k].obj = "combo"
         /\ pending[k].name \in {"activated", "Paint", "MouseMove"}
         /\ pending[k].arg \in {NoArg, IntArg(99)}

\* The objects are set up before the first delivery.
SetUp == stack = <<>> /\ trace = <<>>

NextDispatch ==
    \/ SetUp /\ MQCallback_new /\ DispatchScope'
    \/ SetUp /\ MQCallback_int_new /\ DispatchScope'
    \/ SetUp /\ QObject_connect_abi /\ DispatchScope'
    \/ SetUp /\ MQPaintEventFilter_constructor /\ DispatchScope'
    \/ SetUp /\ QObject_installEventFilter /\ DispatchScope'
    \/ PostSignal /\ DispatchScope'
    \/ PostEvent /\ DispatchScope'
    \/ QCoreApplication_processEvents
    \/ QEventLoop_processEvents
    \/ TakeNext
    \/ LoopReturn
    \/ Deliver
    \/ Trigger
    \/ EventFilterBody
    \/ ForeignReturn
    \/ WrapperReturn
    \/ ForeignTurn /\ trace # <<>> /\ QObject_delete

SpecDispatch == Init /\ [][NextDispatch]_vars


\* ========================================================= properties ====
\* The properties of one QObject, a QWidget. Its trampolines, filters and
\* events are left alone by the operations on properties and layouts.
StoreStep(name) ==
    /\ op' = name
    /\ UNCHANGED <<tramp, conns, filt, chain, made, target, emitted, event, log, rets,
                   delivered, crashed, gone, stack, pending, trace>>

IsDigit(c) == \E i \in 1..10 : DigitChars[i] = c
DigitValue(c) == (CHOOSE i \in 1..10 : DigitChars[i] = c) - 1

Failed == [ok |-> FALSE, v |-> 0]

\* QString::toULongLong(&ok): the number the digits spell; 0 and not ok for
\* an empty string, a character that is no digit, or a number too large.
RECURSIVE ParseFrom(_, _)
ParseFrom(s, acc) ==
    IF s = <<>> THEN [ok |-> TRUE, v |-> acc]
    ELSE IF ~IsDigit(Head(s)) THEN Failed
    ELSE LET n == acc * 10 + DigitValue(Head(s))
         IN  IF n > U64Max THEN Failed ELSE ParseFrom(Tail(s), n)

Parse(s) == IF s = <<>> THEN Failed ELSE ParseFrom(s, 0)

\* QVariant::toULongLong(&ok)
toULongLong(v) ==
    CASE v.t = "ULongLong" -> [ok |-> TRUE, v |-> v.v]
      [] v.t = "Bool"      -> [ok |-> TRUE, v |-> IF v.b THEN 1 ELSE 0]
      [] v.t = "String"    -> Parse(v.s)
      [] OTHER             -> Failed

\* QVariant::convert to bool, for a valid variant.
toBool(v) ==
    CASE v.t = "ULongLong" -> v.v # 0
      [] v.t = "Bool"      -> v.b
      [] OTHER             -> v.s \notin {<<>>, <<"0">>, <<"f", "a", "l", "s", "e">>}

\* QObject::setProperty(name, value). A declared property takes the value
\* converted to its own type, and the call returns whether it could be
\* converted; any other name is a dynamic property, which holds the
\* variant as it is (an invalid variant removes it), and the call returns
\* false.
setProperty(ps, name, value) ==
    IF name \in DeclaredNames
    THEN IF value = Invalid
         THEN [props |-> ps, ret |-> FALSE]
         ELSE [props |-> [ps EXCEPT ![name] = Bool(toBool(value))], ret |-> TRUE]
    ELSE [props |-> [ps EXCEPT ![name] = value], ret |-> FALSE]

\* QObject::property(name): invalid when there is no such property.
property(ps, name) == ps[name]

\* A QVariant made from the value narrowed to an int.
QVariant_narrowed(value) == ULongLong(value % 2^(U64Bits - 1))

\* QVariant(value) for a uint64_t.
QVariant(value) == ULongLong(value % 2^U64Bits)

\* A read that leaves the caller's variable alone when the conversion fails.
property_uint64_keeping(ps, name, out) ==
    LET r == toULongLong(property(ps, name))
    IN  [outValue |-> IF r.ok THEN r.v ELSE out, ret |-> r.ok]

\* QVariant v = self->property(name); bool ok = false;
\* outValue = v.toULongLong(&ok); return ok;
property_uint64(ps, name, out) ==
    LET r == toULongLong(property(ps, name))
    IN  [outValue |-> r.v, ret |-> r.ok]

Returned(b) == [t |-> "bool", b |-> b]

\* bool QObject_setProperty(self, name, const QVariant &value)
QObject_setProperty ==
    \E name \in PropNames, value \in Variants :
        LET r == setProperty(props, name, value)
        IN  /\ ~crashed
            /\ props' = r.props
            /\ returned' = Returned(r.ret)
            /\ args' = [name |-> name, value |-> value]
            /\ StoreStep("QObject_setProperty")
            /\ UNCHANGED <<outValue, layout>>

\* bool QObject_setProperty_uint64(self, name, uint64_t value)
QObject_setProperty_uint64 ==
    \E name \in PropNames, value \in U64Values :
        LET r == setProperty(props, name, QVariant(value))
        IN  /\ ~crashed
            /\ props' = r.props
            /\ returned' = Returned(r.ret)
            /\ args' = [name |-> name, value |-> value]
            /\ StoreStep("QObject_setProperty_uint64")
            /\ UNCHANGED <<outValue, layout>>

\* bool QObject_property_uint64(self, name, uint64_t &outValue)
QObject_property_uint64 ==
    \E name \in PropNames :
        LET r == property_uint64(props, name, outValue)
        IN  /\ ~crashed
            /\ outValue' = r.outValue
            /\ returned' = Returned(r.ret)
            /\ args' = [name |-> name, out |-> outValue]
            /\ StoreStep("QObject_property_uint64")
            /\ UNCHANGED <<props, layout>>

NextProperty ==
    \/ QObject_setProperty
    \/ QObject_setProperty_uint64
    \/ QObject_property_uint64

SpecProperty == Init /\ [][NextProperty]_vars


\* ============================================================ layout ====
\* One QLayout. An item holds a widget or, like a spacer, none.
NullWidget == "nullptr"
NullItem == [k |-> "null"]
WidgetItem(w) == [k |-> "widget", w |-> w]
SpacerItem == [k |-> "spacer"]
Indices == (0 - 1)..MaxItems

\* QLayout::itemAt(index): the item, or 0 when there is no such item.
itemAt(ls, index) ==
    IF index >= 0 /\ index < Len(ls) THEN ls[index + 1] ELSE NullItem

\* QLayoutItem::widget(): the widget of a widget item, 0 for any other.
widget(item) == IF item.k = "widget" THEN item.w ELSE NullWidget

\* QLayout::takeAt(index): the list without the item, if there is one.
takeAt(ls, index) ==
    IF index >= 0 /\ index < Len(ls)
    THEN SubSeq(ls, 1, index) \o SubSeq(ls, index + 2, Len(ls))
    ELSE ls

\* A wrapper that asks the item for its widget without looking at it.
widgetAt_unchecked(ls, index) ==
    LET layoutItem == itemAt(ls, index)
    IN  IF layoutItem = NullItem
        THEN [ret |-> NullWidget, crash |-> TRUE]
        ELSE [ret |-> widget(layoutItem), crash |-> FALSE]

\* auto layoutItem = this_->itemAt(index);
\* if (!layoutItem) return nullptr; return layoutItem->widget();
\* (the two lines written to std::cerr are not part of the state)
widgetAt(ls, index) ==
    LET layoutItem == itemAt(ls, index)
    IN  IF layoutItem = NullItem
        THEN [ret |-> NullWidget, crash |-> FALSE]
        ELSE [ret |-> widget(layoutItem), crash |-> FALSE]

LayoutStep(name) ==
    /\ op' = name
    /\ UNCHANGED <<tramp, conns, filt, chain, made, target, emitted, event, log, rets,
                   delivered, gone, stack, pending, trace, props, outValue>>

\* void QLayout_addWidget(this_, widget)
QLayout_addWidget ==
    \E w \in Widgets :
        /\ ~crashed
        /\ Len(layout) < MaxItems
        /\ layout' = Append(layout, WidgetItem(w))
        /\ returned' = NoReturn
        /\ args' = [widget |-> w]
        /\ LayoutStep("QLayout_addWidget")
        /\ UNCHANGED crashed

\* void QLayout_addItem(this_, item), with an item that holds no widget
QLayout_addItem ==
    /\ ~crashed
    /\ Len(layout) < MaxItems
    /\ layout' = Append(layout, SpacerItem)
    /\ returned' = NoReturn
    /\ args' = [item |-> SpacerItem]
    /\ LayoutStep("QLayout_addItem")
    /\ UNCHANGED crashed

\* QLayoutItem *QLayout_takeAt(this_, i)
QLayout_takeAt ==
    \E i \in Indices :
        /\ ~crashed
        /\ layout' = takeAt(layout, i)
        /\ returned' = [t |-> "QLayoutItem*", p |-> itemAt(layout, i)]
        /\ args' = [index |-> i]
        /\ LayoutStep("QLayout_takeAt")
        /\ UNCHANGED crashed

\* int QLayout_count(this_)
QLayout_count ==
    /\ ~crashed
    /\ returned' = [t |-> "int", i |-> Len(layout)]
    /\ args' = NoArgs
    /\ LayoutStep("QLayout_count")
    /\ UNCHANGED <<layout, crashed>>

\* QWidget *QLayout_widgetAt(this_, index)
QLayout_widgetAt ==
    \E index \in Indices :
        LET r == widgetAt(layout, index)
        IN  /\ ~crashed
            /\ returned' = [t |-> "QWidget*", p |-> r.ret]
            /\ crashed' = r.crash
            /\ args' = [index |-> index]
            /\ LayoutStep("QLayout_widgetAt")
            /\ UNCHANGED layout

NextLayout ==
    \/ QLayout_addWidget
    \/ QLayout_addItem
    \/ QLayout_takeAt
    \/ QLayout_count
    \/ QLayout_widgetAt

SpecLayout == Init /\ [][NextLayout]_vars


\* ============================================================= claims ====
\* The trigger calls the last emission made on trampoline t: one for each
\* connection of t to the emitted signal of the emitting object.
Triggers(t) ==
    Cardinality({k \in 1..Len(conns) : conns[k] = Conn(emitted.sender, emitted.signal, t)})

CallsTo(t) == {k \in 1..Len(log) : log[k].via = "trigger" /\ log[k].h = t}

ExpectedArg(t) == IF tramp[t].kind = "void" THEN NoArg ELSE emitted.arg

GivenPair(t) == <<made[t].data0, made[t].data1>>

\* C1: every firing of trigger on a live trampoline (with a non-null
\* entryPoint) makes exactly one call of its entryPoint, with the data0 and
\* data1 given at creation and, for the int and string variants, the value
\* the signal carried.
C1_TriggerForwardsOnce ==
    op = "emit" =>
        /\ \A k \in 1..Len(log) :
             LET t == log[k].h
             IN  /\ log[k].via = "trigger"
                 /\ Live(t)
                 /\ log[k].fn = made[t].callback
                 /\ log[k].d0 = made[t].data0
                 /\ log[k].d1 = made[t].data1
                 /\ log[k].arg = ExpectedArg(t)
        /\ ~crashed => \A t \in Tramps : Cardinality(CallsTo(t)) = Triggers(t)

\* The scenario of the specification: an int trampoline created with
\* (7, 42, recordCall) and fired with 99 is called once with (7, 42, 99).
C1_Witness ==
    /\ op = "emit"
    /\ \E t \in Tramps :
         /\ tramp[t].kind = "int"
         /\ log = <<Call(t, "recordCall", 7, 42, IntArg(99))>>

DistinctPairs ==
    \A t, u \in Tramps : (Live(t) /\ Live(u) /\ t # u) => GivenPair(t) # GivenPair(u)

FiredOnce == {t \in Tramps : Live(t) /\ Triggers(t) = 1}

\* C4: with live trampolines created with pairwise distinct (data0, data1)
\* pairs, each trampoline that is fired once gets exactly one call, to its
\* own entryPoint with its own pair; when all N are fired once there are N
\* calls; no call carries the pair of another trampoline.
C4_NoCrossDelivery ==
    (op = "emit" /\ ~crashed /\ DistinctPairs) =>
        /\ \A t \in FiredOnce :
             \E k \in 1..Len(log) :
                /\ log[k].h = t
                /\ <<log[k].d0, log[k].d1>> = GivenPair(t)
                /\ log[k].fn = made[t].callback
                /\ \A j \in 1..Len(log) : log[j].h = t => j = k
        /\ (\A t \in Tramps : Live(t) => t \in FiredOnce)
              => Len(log) = Cardinality(FiredOnce)
        /\ \A k \in 1..Len(log), u \in Tramps :
             (Live(u) /\ u # log[k].h) => <<log[k].d0, log[k].d1>> # GivenPair(u)

\* Two trampolines with different pairs and different entryPoints, the one
\* created later connected first, both called by one emission.
C4_Witness ==
    /\ op = "emit"
    /\ DistinctPairs
    /\ Len(log) = 2
    /\ log[1].h > log[2].h
    /\ log[1].fn # log[2].fn
    /\ <<log[1].d0, log[1].d1>> # <<log[2].d0, log[2].d1>>

\* C8: a created trampoline that no connect step has connected is the
\* receiver of no connection, and no emission of any signal of any object
\* calls its entryPoint.
C8_CreateDoesNotSubscribe ==
    \A t \in Tramps :
        (Live(t) /\ made[t].src = "") =>
            /\ \A k \in 1..Len(conns) : conns[k].receiver # t
            /\ \A k \in 1..Len(log) : ~(log[k].via = "trigger" /\ log[k].h = t)

\* A signal is emitted that a created, never connected trampoline could
\* take; another trampoline is called, this one is not.
C8_Witness ==
    /\ op = "emit"
    /\ log # <<>>
    /\ \E t \in Tramps :
         /\ Live(t)
         /\ made[t].src = ""
         /\ made[t].callback # NullFn
         /\ Compatible(emitted.signal, tramp[t].kind)


Attached(f) == \E o \in ChainOwners : InSeq(chain[o], f)
Detached(f) == ~Attached(f)

PredCallsOf(f) == {k \in 1..Len(log) : log[k].via = "eventFilter" /\ log[k].h = f}
OnEventCallsOf(f) == {k \in 1..Len(rets) : rets[k].h = f}

InstallOps == {"QObject_installEventFilter", "QCoreApplication_installEventFilter"}
RemoveOps  == {"QObject_removeEventFilter", "QCoreApplication_removeEventFilter"}

\* C2: every eventFilter call for a paint event calls the predicate exactly
\* once, with the filter's data0 and data1, the receiver of the event and
\* that event, and returns the boolean the predicate returned.
C2_PaintForwardsAndReturnsAnswer ==
    (op = "event" /\ event.type = "Paint") =>
        /\ Len(log) = Len(rets)
        /\ \A k \in 1..Len(rets) :
             LET f == rets[k].h
             IN  /\ log[k].via = "eventFilter"
                 /\ log[k].h = f
                 /\ log[k].fn = filt[f].callback
                 /\ log[k].d0 = filt[f].data0
                 /\ log[k].d1 = filt[f].data1
                 /\ log[k].arg = [widget |-> event.receiver, event |-> event]
                 /\ rets[k].ret = log[k].result

\* A paint event passes two filters: the predicate of the first answers
\* false, that of the second true, and each eventFilter returns the same.
C2_Witness ==
    /\ op = "event"
    /\ event.type = "Paint"
    /\ Len(rets) = 2
    /\ Len(log) = 2
    /\ ~rets[1].ret
    /\ rets[2].ret

\* C3: an eventFilter call for an event that is not a paint event returns
\* false and calls no predicate, also when the predicate is null; every
\* filter on the path is consulted, the event reaches the receiver's own
\* handler, and nothing else changes.
C3_NonPaintState ==
    (op = "event" /\ event.type # "Paint") =>
        /\ log = <<>>
        /\ ~crashed
        /\ \A k \in 1..Len(rets) : rets[k].ret = FALSE
        /\ Len(rets) = Len(chain[App]) + Len(chain[event.receiver])
        /\ delivered

C3_NonPaintIgnored ==
    /\ []C3_NonPaintState
    /\ [][(op' = "event" /\ event'.type # "Paint")
            => UNCHANGED <<tramp, conns, filt, chain, made>>]_vars

\* A mouse event passes two filters, one of them with a null predicate.
C3_Witness ==
    /\ op = "event"
    /\ event.type = "MouseMove"
    /\ Len(rets) = 2
    /\ \E k \in 1..Len(rets) : filt[rets[k].h].callback = NullFn

\* C6: for a paint event, a filter that returns true ends the delivery
\* (no later filter is consulted, the receiver's handler does not run), and
\* when every filter returns false the receiver's handler runs; the
\* returned boolean is the predicate's, so a predicate that answers true
\* suppresses the event.
C6_ReturnDecidesProcessing ==
    (op = "event" /\ event.type = "Paint" /\ ~crashed) =>
        /\ \A k \in 1..Len(rets) : rets[k].ret => (~delivered /\ k = Len(rets))
        /\ (\A k \in 1..Len(rets) : ~rets[k].ret) => delivered
        /\ \A k \in 1..Len(log) : log[k].result => ~delivered
        /\ (\A k \in 1..Len(log) : ~log[k].result) => delivered

\* Two filters are on the path of a paint event; the first returns true,
\* the second is not consulted and the receiver's handler does not run.
C6_Witness ==
    /\ op = "event"
    /\ event.type = "Paint"
    /\ Len(chain[App]) + Len(chain[event.receiver]) = 2
    /\ Len(rets) = 1
    /\ rets[1].ret
    /\ ~delivered

NoDispatchTo(f) == PredCallsOf(f) = {} /\ OnEventCallsOf(f) = {}

\* C7 as stated: create yields Detached, install yields Attached, a remove
\* on a chain that listed the filter yields Detached, and a Detached filter
\* gets no event.
C7_Original ==
    /\ op = "MQPaintEventFilter_constructor" => Detached(target.h)
    /\ op \in InstallOps => Attached(target.h)
    /\ (op \in RemoveOps /\ target.was) => Detached(target.h)
    /\ \A f \in Filters : (FiltLive(f) /\ Detached(f)) => NoDispatchTo(f)

\* C7, amended: create yields Detached, install yields Attached, a remove
\* takes the filter off the chain it names, which leaves it Detached exactly
\* when no other chain lists it, and a Detached filter gets no event.
C7_Amended ==
    /\ op = "MQPaintEventFilter_constructor" => Detached(target.h)
    /\ op \in InstallOps => Attached(target.h) /\ Head(chain[target.owner]) = target.h
    /\ op \in RemoveOps =>
         /\ ~InSeq(chain[target.owner], target.h)
         /\ Detached(target.h) <=>
              \A o \in ChainOwners \ {target.owner} : ~InSeq(chain[o], target.h)
    /\ \A f \in Filters : (FiltLive(f) /\ Detached(f)) => NoDispatchTo(f)

\* A filter has been removed from the application's chain and is still
\* Attached, on an object's chain.
C7_Witness ==
    /\ op = "QCoreApplication_removeEventFilter"
    /\ target.was
    /\ FiltLive(target.h)
    /\ Attached(target.h)

OnPath(f) ==
    (IF InSeq(chain[App], f) THEN 1 ELSE 0)
        + (IF InSeq(chain[event.receiver], f) THEN 1 ELSE 0)

\* C9 as stated: for a paint event, the predicate of a filter is called at
\* most once.
C9_Original ==
    (op = "event" /\ event.type = "Paint") =>
        \A f \in Filters : Cardinality(PredCallsOf(f)) <= 1

\* C9, amended: for a paint event, the predicate of a filter is called at
\* most once for each chain on the event's path (the application's, the
\* receiver's) that lists the filter: at most once when one of them lists
\* it, at most twice when both do.
C9_Amended ==
    (op = "event" /\ event.type = "Paint") =>
        \A f \in Filters : Cardinality(PredCallsOf(f)) <= OnPath(f)

\* A filter installed on the application and on the receiver whose
\* predicate is called twice for one paint event.
C9_Witness ==
    /\ op = "event"
    /\ event.type = "Paint"
    /\ \E f \in Filters : Cardinality(PredCallsOf(f)) = 2 /\ OnPath(f) = 2

ChainsOf(f) == {o \in ChainOwners : InSeq(chain[o], f)}

\* C10 as stated: a filter is never on two or more chains at once.
C10_Original ==
    \A f \in Filters : Cardinality(ChainsOf(f)) <= 1

\* C10, amended: every chain lists a filter at most once and lists live
\* filters only; a filter may be on several chains at once.
C10_Amended ==
    \A o \in ChainOwners :
        /\ \A i, j \in 1..Len(chain[o]) : chain[o][i] = chain[o][j] => i = j
        /\ \A i \in 1..Len(chain[o]) : FiltLive(chain[o][i])

\* A filter installed on the application's chain and on an object's chain.
C10_Witness ==
    \E f \in Filters : App \in ChainsOf(f) /\ Cardinality(ChainsOf(f)) >= 2

\* C5: a destroyed trampoline is the receiver of no connection and no
\* emission calls its entryPoint; a destroyed paint filter is on no chain
\* and no event reaches its eventFilter or its predicate.
C5_NoDispatchAfterDestroy ==
    /\ \A t \in Tramps :
         tramp[t].st # "live" =>
            /\ \A k \in 1..Len(conns) : conns[k].receiver # t
            /\ CallsTo(t) = {}
    /\ \A f \in Filters :
         filt[f].st # "live" =>
            /\ Detached(f)
            /\ NoDispatchTo(f)

\* A trampoline that was connected to an object has been destroyed, the
\* object emits a signal and nothing is called.
C5_Witness ==
    /\ op = "emit"
    /\ log = <<>>
    /\ \E t \in Tramps :
         /\ tramp[t].st = "destroyed"
         /\ made[t].src = emitted.sender


\* C11 as stated: after a destroy from Attached the chain still lists the
\* destroyed filter.
C11_Original ==
    (op = "MQPaintEventFilter_destructor" /\ target.was) => Attached(target.h)

\* C11, amended: nothing prevents a destroy from Attached (the destructor
\* can run on every live filter, attached or not), and it leaves no
\* registration behind: the destroyed filter is on no chain, and every
\* eventFilter and predicate call of a later event is to a live filter.
C11_Amended ==
    /\ (~crashed /\ \E f \in Filters : FiltLive(f) /\ Attached(f))
          => ENABLED MQPaintEventFilter_destructor
    /\ op = "MQPaintEventFilter_destructor" =>
          /\ ~FiltLive(target.h)
          /\ Detached(target.h)
    /\ op = "event" =>
          /\ \A k \in 1..Len(rets) : FiltLive(rets[k].h)
          /\ \A k \in 1..Len(log) : FiltLive(log[k].h)
          /\ ~crashed => Len(rets) <= Len(chain[App]) + Len(chain[event.receiver])

\* A filter has been destroyed while Attached and another one is still
\* installed.
C11_Witness ==
    /\ op = "MQPaintEventFilter_destructor"
    /\ target.was
    /\ \E g \in Filters : FiltLive(g) /\ Attached(g)


\* C12 as stated: no live trampoline exists whose source has been torn down.
C12_Original ==
    \A t \in Tramps : Live(t) => made[t].src \notin gone

\* C12, amended: tearing a source down removes the connections from it and
\* leaves every trampoline as it is, the ones connected to it included; a
\* trampoline ceases to be live only in a QObject_delete or
\* QObject_destructor step of the caller.
C12_Amended ==
    /\ [](\A k \in 1..Len(conns) : conns[k].sender \notin gone)
    /\ [][op' = "QComboBox_delete" => UNCHANGED <<tramp, made>>]_vars
    /\ [][(\E t \in Tramps : Live(t) /\ tramp'[t].st # "live")
            => op' \in {"QObject_delete", "QObject_destructor"}]_vars

\* The source a live trampoline was connected to has just been deleted.
C12_Witness ==
    /\ op = "QComboBox_delete"
    /\ \E t \in Tramps :
         /\ Live(t)
         /\ made[t].src = target.owner
         /\ tramp[t].callback = made[t].callback

\* C13: no install, remove or teardown step destroys a paint filter or
\* changes it; a filter ceases to be live only in a
\* MQPaintEventFilter_destructor step, and one that was on the chain of a
\* deleted object is merely off that chain.
C13_FilterNotOwnedByChain ==
    /\ [](\A o \in gone : chain[o] = <<>>)
    /\ [][op' \in InstallOps \cup RemoveOps \cup {"QComboBox_delete"} => filt' = filt]_vars
    /\ [][(\E f \in Filters : FiltLive(f) /\ filt'[f].st # "live")
            => op' = "MQPaintEventFilter_destructor"]_vars

\* An object with a filter installed has just been deleted; the filter is
\* live.
C13_Witness ==
    /\ op = "QComboBox_delete"
    /\ target.was
    /\ FiltLive(target.h)


\* C14: every live handle can be destroyed by a flat operation that takes
\* it (a trampoline of any of the three kinds by QObject_delete and by
\* QObject_destructor, a paint filter by MQPaintEventFilter_destructor),
\* and every call a dispatch makes, to an entryPoint, an eventFilter or a
\* predicate, is to a handle that is live.
C14_EveryHandleDestroyable ==
    /\ ~crashed =>
         /\ \A t \in Tramps : Live(t) =>
               /\ ENABLED (QObject_delete /\ tramp'[t].st = "free")
               /\ ENABLED (QObject_destructor /\ tramp'[t].st = "destroyed")
         /\ \A f \in Filters : FiltLive(f) =>
               ENABLED (MQPaintEventFilter_destructor /\ filt'[f].st = "none")
    /\ \A k \in 1..Len(log) :
         /\ log[k].via = "trigger" => Live(log[k].h)
         /\ log[k].via = "eventFilter" => FiltLive(log[k].h)
    /\ \A k \in 1..Len(rets) : FiltLive(rets[k].h)

\* A trampoline and a paint filter have both been destroyed.
C14_Witness ==
    /\ op = "MQPaintEventFilter_destructor"
    /\ \E t \in Tramps : tramp[t].st = "destroyed" /\ made[t].src # ""


\* C15: for an event of any type to any object, eventFilter is called on
\* every filter of the application's chain and then on every filter of the
\* receiver's chain, in order, up to the first that returns true (a filter
\* that returns true ends the delivery); a filter at the head of the
\* application's chain is consulted for every event of every object; each
\* predicate call carries the object the event was addressed to.
C15_ConsultedForEveryEvent ==
    (op = "event" /\ ~crashed) =>
        LET path == PathOf(event.receiver)
        IN  /\ Len(rets) <= Len(path)
            /\ \A k \in 1..Len(rets) :
                 /\ rets[k].h = path[k].h
                 /\ rets[k].owner = path[k].owner
            /\ Len(rets) < Len(path) => (rets # <<>> /\ rets[Len(rets)].ret)
            /\ chain[App] # <<>> => (rets # <<>> /\ rets[1].h = Head(chain[App]))
            /\ \A k \in 1..Len(log) : log[k].arg.widget = event.receiver

\* A filter installed on the application only is consulted for a paint
\* event addressed to a widget that has no filter of its own, and its
\* predicate is given that widget.
C15_Witness ==
    /\ op = "event"
    /\ event.type = "Paint"
    /\ event.receiver \in Widgets
    /\ chain[event.receiver] = <<>>
    /\ Len(rets) = 2
    /\ rets[2].owner = App
    /\ Len(log) = 2
    /\ log[2].arg.widget = event.receiver


SameArguments(f, g) ==
    /\ filt[f].data0 = filt[g].data0
    /\ filt[f].data1 = filt[g].data1
    /\ filt[f].callback = filt[g].callback

\* C19: an event step changes no filter, and in every state, whatever
\* events came before, two live filters created with the same arguments
\* return the same boolean and make the same number of predicate calls for
\* an event of the same type with the same predicate answer, whichever
\* objects the events are addressed to.
C19_FilterStateless ==
    /\ [][op' = "event" => filt' = filt]_vars
    /\ [](\A f, g \in Filters :
            (FiltLive(f) /\ FiltLive(g) /\ SameArguments(f, g)) =>
                \A type \in EventTypes, answer \in BOOLEAN, r1, r2 \in Objects :
                    LET a == eventFilter(f, r1, [receiver |-> r1, type |-> type], answer)
                        b == eventFilter(g, r2, [receiver |-> r2, type |-> type], answer)
                    IN  /\ a.ret = b.ret
                        /\ a.crash = b.crash
                        /\ Len(a.calls) = Len(b.calls))
    /\ [](op = "event" =>
            \A j, k \in 1..Len(rets) :
                (event.type = "Paint" /\ SameArguments(rets[j].h, rets[k].h)
                   /\ log[j].result = log[k].result) => rets[j].ret = rets[k].ret)

\* Two filters created with the same arguments; a paint event has just
\* been stopped by one of them before it reached the other.
C19_Witness ==
    /\ op = "event"
    /\ event.type = "Paint"
    /\ Len(rets) = 1
    /\ rets[1].ret
    /\ \E g \in Filters :
         /\ g # rets[1].h
         /\ FiltLive(g)
         /\ SameArguments(g, rets[1].h)
         /\ InSeq(chain[event.receiver], g)


ForeignFrames == {i \in 1..Len(stack) : stack[i].k = "foreign"}

OneCallChain ==
    \A i \in 1..Len(stack) :
        /\ stack[i].k = "loop" => (i = 1 \/ stack[i - 1].k = "foreign")
        /\ stack[i].k = "dispatch" => (i > 1 /\ stack[i - 1].k = "loop")
        /\ stack[i].k = "shim" => (i > 1 /\ stack[i - 1].k = "dispatch")
        /\ stack[i].k = "foreign" =>
              /\ i > 1
              /\ stack[i - 1].k = "shim"
              /\ stack[i - 1].pc = "calling"
              /\ stack[i - 1].h = stack[i].h
              /\ i < Len(stack) => stack[i + 1].k = "loop"

TraceIdx(e) == {k \in 1..Len(trace) : trace[k].e = e}

\* C17: the entryPoint call is the first thing a trigger does and the
\* predicate call the first thing an eventFilter does for a paint event
\* (the call entry follows the entry of its trigger or eventFilter at
\* once); a trigger or eventFilter that has returned made its call and got
\* it back before it returned; a trigger makes one call, an eventFilter at
\* most one; and no step of the shim puts anything on the event queue.
C17_SynchronousForward ==
    /\ [](\A j \in TraceIdx("call") :
            /\ j > 1
            /\ trace[j - 1].e = "fire"
            /\ trace[j - 1].h = trace[j].h
            /\ trace[j - 1].via = trace[j].via
            /\ trace[j].depth = trace[j - 1].depth + 1)
    /\ [](\A n \in TraceIdx("done") :
            (trace[n].via = "trigger" \/ trace[n].call # NoCall) =>
                \E j, k \in 1..(n - 1) :
                    /\ j < k
                    /\ trace[j].e = "call"
                    /\ trace[k].e = "back"
                    /\ trace[j].h = trace[n].h
                    /\ trace[k].h = trace[n].h
                    /\ trace[j].call = trace[n].call
                    /\ trace[j].depth = trace[n].depth
                    /\ trace[k].depth = trace[n].depth + 1
                    /\ \A m \in (j + 1)..(n - 1) :
                          trace[m].depth = trace[n].depth => trace[m].e \notin {"call", "done"})
    /\ [](Cardinality(TraceIdx("call")) <= Cardinality(TraceIdx("fire")))
    /\ [][pending' # pending => op' \in {"PostSignal", "PostEvent", "TakeNext"}]_vars

\* A trigger and an eventFilter for a paint event have both returned.
C17_Witness ==
    /\ \E n \in TraceIdx("done") : trace[n].via = "trigger"
    /\ \E n \in TraceIdx("done") : trace[n].via = "eventFilter" /\ trace[n].call # NoCall

Fired(t) == {k \in TraceIdx("fire") : trace[k].via = "trigger" /\ trace[k].h = t}
Called(t) == {k \in TraceIdx("call") : trace[k].via = "trigger" /\ trace[k].h = t}

\* The handles of the trace entries of one sort made by trigger, in order.
RECURSIVE HandlesOf(_, _)
HandlesOf(tr, e) ==
    IF tr = <<>> THEN <<>>
    ELSE IF Head(tr).e = e /\ Head(tr).via = "trigger"
         THEN <<Head(tr).h>> \o HandlesOf(Tail(tr), e)
         ELSE HandlesOf(Tail(tr), e)

IsPrefix(a, b) == Len(a) <= Len(b) /\ \A i \in 1..Len(a) : a[i] = b[i]

\* C18: a live trampoline holds the data0, data1 and entryPoint it was
\* created with after any number of firings, no step of a dispatch changes
\* a trampoline, k completed firings of a trampoline have made k entryPoint
\* calls, all with those words and that entryPoint, and the calls are made
\* in the order of the firings.
C18_UnchangedByFiring ==
    /\ [](\A t \in Tramps : Live(t) =>
            /\ tramp[t].data0 = made[t].data0
            /\ tramp[t].data1 = made[t].data1
            /\ tramp[t].callback = made[t].callback
            /\ \A k \in Called(t) :
                  /\ trace[k].call.d0 = made[t].data0
                  /\ trace[k].call.d1 = made[t].data1
                  /\ trace[k].call.fn = made[t].callback)
    /\ [](~crashed => \A t \in Tramps :
            /\ Cardinality(Called(t)) <= Cardinality(Fired(t))
            /\ Cardinality(Called(t)) >= Cardinality(Fired(t)) - 1
            /\ Cardinality(Called(t)) < Cardinality(Fired(t)) =>
                  (Top.k = "shim" /\ Top.h = t /\ Top.pc = "entry"))
    /\ [](IsPrefix(HandlesOf(trace, "call"), HandlesOf(trace, "fire")))
    /\ [][op' \in {"TakeNext", "Deliver", "Trigger", "ForeignReturn", "WrapperReturn"}
            => tramp' = tramp]_vars

\* A live trampoline has been fired twice and called twice.
C18_Witness ==
    \E t \in Tramps :
        /\ Live(t)
        /\ stack = <<>>
        /\ Cardinality(Fired(t)) = 2
        /\ Cardinality(Called(t)) = 2

SignalFrames == {i \in 1..Len(stack) : stack[i].k = "dispatch" /\ stack[i].item.what = "signal"}

C21_Original ==
    \A t \in Tramps : Live(t) => tramp[t].callback # NullFn

\* C21, amended: the entryPoint of a live trampoline is the pointer the
\* caller gave at creation, from creation until destruction (no step
\* changes it while the trampoline lives); it is non-null exactly when the
\* caller's pointer was.
C21_Amended ==
    /\ [](\A t \in Tramps : Live(t) =>
            /\ tramp[t].callback = made[t].callback
            /\ tramp[t].callback \in EntryPoints)
    /\ [][\A t \in Tramps : (Live(t) /\ tramp'[t].st = "live")
            => tramp'[t].callback = tramp[t].callback]_vars

\* A trampoline created with a null entryPoint is live, and connected,
\* while a signal it is not connected to is emitted.
C21_Witness ==
    /\ op = "emit"
    /\ ~crashed
    /\ \E t \in Tramps :
         /\ Live(t)
         /\ tramp[t].callback = NullFn
         /\ made[t].src # ""


\* The operations that create an object of the shim.
TrampCreateOps == {"MQCallback_new", "MQCallback_int_new", "MQCallback_QString_new"}
CreateOps == TrampCreateOps \cup {"MQPaintEventFilter_constructor"}

\* A create of kind `kind` with these arguments can be taken, and taking it
\* yields a live trampoline holding exactly them.
CanCreate(kind, d, cb) ==
    ENABLED /\ NewCallback(kind, d[1], d[2], cb)
            /\ Quiet("create")
            /\ \E t \in Tramps : /\ tramp[t].st = "free"
                                 /\ tramp'[t] = MQCallback(kind, d[1], d[2], cb)

\* The filter constructor can be taken on storage `self` with these
\* arguments, and taking it yields a live filter holding exactly them.
CanConstruct(self, d, cb) ==
    ENABLED /\ MQPaintEventFilter_constructor
            /\ filt'[self] = MQPaintEventFilter(d[1], d[2], cb)

\* C22: the create operations validate nothing and report nothing. While
\* the process runs, a create goes through for every data0, data1 and
\* function pointer, null included, whenever there is a handle (storage) for
\* the new object; a create step makes no foreign call, returns no error and
\* does not end the process; and the only results of a dispatch are the
\* calls it makes and, for onEvent, the predicate's own true or false:
\* there is no error value.
C22_CreateNeverFails ==
    /\ [](~crashed =>
            /\ \A kind \in Kinds, d \in DataPairs, cb \in EntryPoints :
                 (\E t \in Tramps : tramp[t].st = "free") => CanCreate(kind, d, cb)
            /\ \A self \in Filters, d \in DataPairs, cb \in Predicates :
                 filt[self].st = "none" => CanConstruct(self, d, cb))
    /\ [](op \in CreateOps => log = <<>> /\ rets = <<>>)
    /\ [][op' \in CreateOps => crashed' = crashed]_vars
    /\ [](\A k \in 1..Len(rets) : rets[k].ret \in BOOLEAN)

\* A trampoline and a filter, both created with a null function pointer,
\* are live right after the filter's construction.
C22_Witness ==
    /\ op = "MQPaintEventFilter_constructor"
    /\ ~crashed
    /\ \E t \in Tramps : Live(t) /\ tramp[t].callback = NullFn
    /\ \E f \in Filters : FiltLive(f) /\ filt[f].callback = NullFn


\* C23: a Paint event whose receiver is not a widget is dropped by the
\* filter: its predicate is not called and eventFilter returns false.
C23_DropsNonWidgetPaint ==
    (op = "event" /\ event.type = "Paint" /\ event.receiver \notin Widgets)
        => /\ log = <<>>
           /\ \A k \in 1..Len(rets) : ~rets[k].ret


\* The operations on trampolines (create, connect, fire, destroy) and the
\* operations on filters (create, install, onEvent, remove, destroy).
TrampOps == TrampCreateOps \cup {"QObject_connect_abi", "emit", "QObject_delete", "QObject_destructor"}
FilterOps == {"MQPaintEventFilter_constructor", "QObject_installEventFilter",
              "QObject_removeEventFilter", "QCoreApplication_installEventFilter",
              "QCoreApplication_removeEventFilter", "event", "MQPaintEventFilter_destructor"}

\* C24: the two components do not touch each other. A trampoline operation
\* leaves every filter and every filter list as it was and calls no
\* predicate; a filter operation leaves every trampoline and every
\* subscription as it was and calls no entryPoint.
C24_NoCrossTalk ==
    /\ [][op' \in TrampOps =>
            /\ filt' = filt
            /\ chain' = chain
            /\ rets' = <<>>
            /\ \A k \in 1..Len(log') : log'[k].via = "trigger"]_vars
    /\ [][op' \in FilterOps =>
            /\ tramp' = tramp
            /\ conns' = conns
            /\ \A k \in 1..Len(log') : log'[k].via = "eventFilter"]_vars

\* A filter is destroyed while it is attached and a trampoline is
\* subscribed to a signal: the subscription is still there.
C24_Witness ==
    /\ op = "MQPaintEventFilter_destructor"
    /\ target.was
    /\ conns # <<>>
    /\ \E t \in Tramps : Live(t) /\ conns[1].receiver = t


\* The connection a QObject_connect_abi call asks for, and whether the
\* signal's signature fits the receiver's trigger.
AskedConn == Conn(args.sender, args.signal, args.receiver)
AskedFits == Compatible(args.signal, tramp[args.receiver].kind)

\* C26 as stated: every call adds one subscription, whatever its connection
\* type, so that k calls with the same trampoline, signal and source make
\* k subscriptions.
C26_Original ==
    [][(op' = "QObject_connect_abi" /\ AskedFits')
        => conns' = Append(conns, AskedConn')]_vars

\* C26, amended: the wrapper keeps nothing of its own and forwards its
\* arguments: a call changes the connection list and nothing else. It adds
\* one subscription, at the end, also when the same subscription is there
\* already, unless the forwarded connection type carries
\* Qt::UniqueConnection, with which Qt refuses a repeated connection (or
\* the signatures do not fit, which Qt refuses too). One firing calls the
\* entryPoint once for each subscription there is.
C26_Amended ==
    /\ [][op' = "QObject_connect_abi" =>
            /\ conns' = IF AskedFits' /\ ~(args'.type = "UniqueConnection" /\ InSeq(conns, AskedConn'))
                        THEN Append(conns, AskedConn')
                        ELSE conns
            /\ tramp' = tramp
            /\ filt' = filt
            /\ chain' = chain]_vars
    /\ []((op = "emit" /\ ~crashed) =>
            \A t \in Tramps : Cardinality(CallsTo(t)) = Triggers(t))

\* One trampoline is subscribed twice to the same signal of the same
\* source, and one firing of it has called the entryPoint twice.
C26_Witness ==
    /\ op = "emit"
    /\ ~crashed
    /\ Len(conns) = 2
    /\ conns[1] = conns[2]
    /\ Len(log) = 2
    /\ log[1].h = log[2].h


\* The signal each binder names, and the kind of trampoline it makes.
BinderOps == {"QComboBox_activated_int", "QComboBox_currentTextChanged"}
SignalOf(name) == IF name = "QComboBox_activated_int" THEN "activated" ELSE "currentTextChanged"
KindOf(name) == IF name = "QComboBox_activated_int" THEN "int" ELSE "QString"
SignalOfKind(kind) == IF kind = "int" THEN "activated" ELSE "currentTextChanged"

\* C25: a binder makes one new trampoline, holding the given data words
\* and callback, and adds one subscription: that trampoline to the named
\* signal of the given object; nothing else changes. Afterwards a firing
\* of that signal on that object calls the callback once, with the data
\* words and the signal's argument, and a firing of any other signal, or
\* of the same signal on another object, does not call it.
C25_BinderBindsOneSignal ==
    /\ [][op' \in BinderOps =>
            /\ tramp[args'.cb].st = "free"
            /\ tramp'[args'.cb] = [st |-> "live", kind |-> KindOf(op'), data0 |-> args'.data0,
                                   data1 |-> args'.data1, callback |-> args'.callback]
            /\ \A u \in Tramps \ {args'.cb} : tramp'[u] = tramp[u]
            /\ conns' = conns \o <<Conn(args'.this_, SignalOf(op'), args'.cb)>>]_vars
    /\ []((op = "emit" /\ ~crashed) =>
            \A t \in Tramps : Live(t) =>
                IF emitted.sender = made[t].src /\ emitted.signal = SignalOfKind(tramp[t].kind)
                THEN /\ Cardinality(CallsTo(t)) = 1
                     /\ \A k \in CallsTo(t) :
                          log[k] = Call(t, made[t].callback, made[t].data0, made[t].data1,
                                        emitted.arg)
                ELSE CallsTo(t) = {})

\* Two binders have bound two trampolines to two signals of the combo box;
\* one of the signals fires and only its trampoline's callback is called.
C25_Witness ==
    /\ op = "emit"
    /\ ~crashed
    /\ emitted.sender = "combo"
    /\ emitted.signal = "activated"
    /\ \A t \in Tramps : Live(t) /\ made[t].callback # NullFn
    /\ \E t, u \in Tramps : tramp[t].kind = "int" /\ tramp[u].kind = "QString"
    /\ Len(log) = 1


\* The named property exists and its value converts to an unsigned 64-bit
\* integer: it is a number, a bool, or a string that is the decimal form
\* of such an integer; and the integer it converts to.
Converts(v) ==
    \/ v.t \in {"ULongLong", "Bool"}
    \/ v.t = "String" /\ \E n \in 0..U64Max : ToDigits(n) = v.s

Converted(v) ==
    CASE v.t = "ULongLong" -> v.v
      [] v.t = "Bool"      -> IF v.b THEN 1 ELSE 0
      [] OTHER             -> CHOOSE n \in 0..U64Max : ToDigits(n) = v.s

\* C27: QObject_property_uint64 returns true exactly when the named
\* property exists and its value converts to an unsigned 64-bit integer,
\* and outValue is then that integer; otherwise it returns false and
\* outValue is overwritten all the same, with the 0 the failed conversion
\* yields. The properties are the same after the call in both cases.
C27_PropertyUint64 ==
    /\ [](op = "QObject_property_uint64" =>
            LET v == props[args.name]
            IN  /\ returned.b = (v # Invalid /\ Converts(v))
                /\ returned.b => outValue = Converted(v)
                /\ ~returned.b => outValue = 0)
    /\ [][op' = "QObject_property_uint64" => props' = props]_vars

\* A read of a property that holds text fails and has overwritten a
\* variable that held another value before.
C27_Witness ==
    /\ op = "QObject_property_uint64"
    /\ props[args.name] = String(<<"a", "b", "c">>)
    /\ ~returned.b
    /\ args.out = U64Max
    /\ outValue = 0


\* A read of the property that the step before has set with
\* QObject_setProperty_uint64.
ReadsBack ==
    /\ op = "QObject_setProperty_uint64"
    /\ op' = "QObject_property_uint64"
    /\ args'.name = args.name

\* C28 as stated: for every property name and value, the read that follows
\* a set of that name returns true and gives the value back.
C28_Original ==
    [][ReadsBack => (returned'.b /\ outValue' = args.value)]_vars

\* C28, amended: for every name that is not a declared property of the
\* object (a dynamic property) and every value, the read that follows a set
\* of that name returns true and gives the value back; a set leaves the
\* properties of all other names as they were, and so does a read, so a
\* later set of the same name replaces the value and sets of other names
\* do not disturb it.
C28_Amended ==
    /\ [][(ReadsBack /\ args.name \in DynamicNames)
            => (returned'.b /\ outValue' = args.value)]_vars
    /\ [][op' \in {"QObject_setProperty_uint64", "QObject_setProperty"}
            => \A n \in PropNames \ {args'.name} : props'[n] = props[n]]_vars
    /\ [][op' = "QObject_property_uint64" => props' = props]_vars

\* The largest value has been written over another value of a dynamic
\* property, beside another dynamic property that holds a value, and has
\* been read back.
C28_Witness ==
    /\ op = "QObject_property_uint64"
    /\ args.name = "id"
    /\ returned.b
    /\ outValue = U64Max
    /\ args.out = 7
    /\ props["id"] = ULongLong(U64Max)
    /\ props["tag"] = ULongLong(1)


\* C29: QLayout_widgetAt returns the null widget handle, and dereferences
\* nothing, for every index at which the layout has no item, that is a
\* negative one or one not below the count; for any other index it returns
\* the widget of the item at that index. It never changes the layout.
C29_WidgetAt ==
    /\ [](op = "QLayout_widgetAt" =>
            /\ ~crashed
            /\ returned.p = IF args.index < 0 \/ args.index >= Len(layout)
                            THEN NullWidget
                            ELSE widget(layout[args.index + 1]))
    /\ [][op' = "QLayout_widgetAt" => layout' = layout]_vars
    /\ [](op = "QLayout_count" => returned.i = Len(layout))

\* The layout holds a widget and an item without one, and the index asked
\* for is the count: there is no item there and the null handle comes back.
C29_Witness ==
    /\ op = "QLayout_widgetAt"
    /\ ~crashed
    /\ Len(layout) = 2
    /\ layout[1] = WidgetItem("combo")
    /\ layout[2] = SpacerItem
    /\ args.index = 2
    /\ returned.p = NullWidget

====
